---------------------------- MODULE Spec2Model ----------------------------
(***************************************************************************)
(* A model of the hot-path CLOB client (src/src/hotpath): the              *)
(* configuration checks, the create-or-derive credential bootstrap, the    *)
(* limit-order validation / amount derivation / signing pipeline and the   *)
(* order submission.                                                       *)
(*                                                                         *)
(* Conventions.                                                            *)
(*   Option<T>     a set with at most one element: {} is None, {x} Some(x) *)
(*   Result<T>     Ok(v) or Err(kind, msg) below                           *)
(*   Decimal       [neg, m, s]: sign flag, unsigned mantissa, scale (the   *)
(*                 value is (-1)^neg * m / 10^s), as rust_decimal keeps it *)
(*   DateTime<Utc> whole seconds relative to the unix epoch                *)
(***************************************************************************)
EXTENDS Integers, Sequences, FiniteSets, TLC

VARIABLES
    config,     \* the pending Result<HotPathConfig> held by the caller
    client,     \* Option<HotPathClient>: the constructed client
    net,        \* the HTTP requests sent by the operation that ran last
    last,       \* the operation that ran last: its name, inputs and result
    held,       \* Option<SignedOrder>: a signed order the caller keeps
    input       \* Option: the request a pure-pipeline run is about to sign

vars == <<config, client, net, last, held, input>>

-----------------------------------------------------------------------------
(* Program constants                                                       *)

USDC_DECIMALS == 6
LOT_SIZE_SCALE == 2
POLYGON == 137

(* Bounds of the model                                                     *)

MaxPriceScale == 5      \* price scales 0..MaxPriceScale
MaxSizeScale == 3       \* size scales 0..MaxSizeScale
MaxClock == 2           \* wall-clock seconds 1..MaxClock
MaxFeeRate == 1         \* fee rates 0..MaxFeeRate

-----------------------------------------------------------------------------
(* Result and Option                                                       *)

Ok(v) == [ok |-> TRUE, val |-> v]

Err(kind, msg) == [ok |-> FALSE, kind |-> kind, msg |-> msg]

None == {}

Some(x) == {x}

Unwrap(o) == CHOOSE x \in o : TRUE

UnwrapOr(o, d) == IF o = {} THEN d ELSE Unwrap(o)

OptionOf(S) == {None} \cup {Some(x) : x \in S}

-----------------------------------------------------------------------------
(* rust_decimal::Decimal                                                   *)

RECURSIVE Pow10(_)
Pow10(n) == IF n <= 0 THEN 1 ELSE 10 * Pow10(n - 1)

Dec(neg, m, s) == [neg |-> neg, m |-> m, s |-> s]

DecOne == Dec(FALSE, 1, 0)

\* The signed mantissa of d.
DecSigned(d) == IF d.neg THEN 0 - d.m ELSE d.m

DecIsSignNegative(d) == d.neg

DecIsZero(d) == d.m = 0

DecScale(d) == d.s

\* a < b and a > b compare the values, whatever the scales.
DecLt(a, b) ==
    LET s == IF a.s > b.s THEN a.s ELSE b.s
    IN  DecSigned(a) * Pow10(s - a.s) < DecSigned(b) * Pow10(s - b.s)

DecGt(a, b) == DecLt(b, a)

\* a - b: the operands are brought to the larger scale.
DecSub(a, b) ==
    LET s == IF a.s > b.s THEN a.s ELSE b.s
        v == DecSigned(a) * Pow10(s - a.s) - DecSigned(b) * Pow10(s - b.s)
    IN  Dec(v < 0, IF v < 0 THEN 0 - v ELSE v, s)

\* a * b: the mantissas multiply and the scales add.
DecMul(a, b) == Dec(a.neg # b.neg, a.m * b.m, a.s + b.s)

\* Strips the trailing zeros of the fraction; zero becomes 0 with scale 0.
RECURSIVE StripZeros(_, _)
StripZeros(m, s) ==
    IF s > 0 /\ m % 10 = 0 THEN StripZeros(m \div 10, s - 1) ELSE <<m, s>>

DecNormalize(d) ==
    IF d.m = 0 THEN Dec(FALSE, 0, 0)
    ELSE LET r == StripZeros(d.m, d.s) IN Dec(d.neg, r[1], r[2])

\* The value cut (toward zero, no rounding) to `scale` fractional digits and
\* expressed at that scale.
DecTruncWithScale(d, scale) ==
    IF d.s > scale
    THEN Dec(d.neg, d.m \div Pow10(d.s - scale), scale)
    ELSE Dec(d.neg, d.m * Pow10(scale - d.s), scale)

DecMantissa(d) == DecSigned(d)

-----------------------------------------------------------------------------
(* clob::types::TickSize: a tick size is named by its number of decimals   *)

TickSizes == 1..4

TickAsDecimal(t) == Dec(FALSE, 1, t)

-----------------------------------------------------------------------------
(* hotpath/policy.rs                                                       *)

Fixed(v) == [tag |-> "Fixed", v |-> {v}]

FetchAndCache == [tag |-> "FetchAndCache", v |-> {}]

resolve_fixed(slot, field) ==
    IF slot.tag = "Fixed" THEN Ok(Unwrap(slot.v))
    ELSE Err("Validation", <<field, "policy FetchAndCache is not implemented">>)

ensure_supported(time) ==
    IF time = "Fixed" THEN Ok("unit")
    ELSE Err("Validation", <<"time", "policy FetchAndCache is not implemented">>)

default_tick_size(p) == resolve_fixed(p.tick_size, "tick_size")

default_neg_risk(p) == resolve_fixed(p.neg_risk, "neg_risk")

default_fee_rate_bps(p) == resolve_fixed(p.fee_rate_bps, "fee_rate_bps")

\* validate that forgets the fee-rate slot.
validate_without_fee(p) ==
    IF ~ensure_supported(p.time).ok THEN ensure_supported(p.time)
    ELSE IF ~default_tick_size(p).ok THEN default_tick_size(p)
    ELSE IF ~default_neg_risk(p).ok THEN default_neg_risk(p)
    ELSE Ok("unit")

validate(p) ==
    IF ~ensure_supported(p.time).ok THEN ensure_supported(p.time)
    ELSE IF ~default_tick_size(p).ok THEN default_tick_size(p)
    ELSE IF ~default_neg_risk(p).ok THEN default_neg_risk(p)
    ELSE IF ~default_fee_rate_bps(p).ok THEN default_fee_rate_bps(p)
    ELSE Ok("unit")

-----------------------------------------------------------------------------
(* hotpath/types.rs: SignatureTypeInput                                    *)

SignatureTypes == {"Eoa", "Proxy", "GnosisSafe"}

\* value.trim().to_ascii_lowercase() on the strings the model feeds in.
TrimLower(value) ==
    CASE value = " Proxy " -> "proxy"
      [] value = "EOA" -> "eoa"
      [] value = "Safe" -> "safe"
      [] OTHER -> value

SignatureTypeInput_parse(value) ==
    LET v == TrimLower(value) IN
    IF v \in {"0", "eoa"} THEN Ok("Eoa")
    ELSE IF v \in {"1", "proxy"} THEN Ok("Proxy")
    ELSE IF v \in {"2", "gnosis", "gnosis_safe", "gnosissafe", "safe"}
         THEN Ok("GnosisSafe")
    ELSE Err("Validation", "invalid signature_type")

into_signature_type(t) == t

-----------------------------------------------------------------------------
(* hotpath/config.rs                                                       *)

AddressZero == 0

HotPathConfig(host, chain_id, private_key, signature_type, funder, nonce, policies) ==
    [host |-> host, chain_id |-> chain_id, private_key |-> private_key,
     signature_type |-> signature_type, funder |-> funder, nonce |-> nonce,
     policies |-> policies]

\* HotPathConfig::new that lets the Eoa mode through.
HotPathConfig_new_any_mode(host, chain_id, private_key, signature_type, funder, nonce, policies) ==
    IF chain_id # POLYGON
    THEN Err("Validation", "hotpath currently supports Polygon only")
    ELSE IF funder = AddressZero
    THEN Err("Validation", "hotpath config requires non-zero funder")
    ELSE IF ~validate(policies).ok
    THEN validate(policies)
    ELSE Ok(HotPathConfig(host, chain_id, private_key, signature_type, funder,
                          nonce, policies))

HotPathConfig_new(host, chain_id, private_key, signature_type, funder, nonce, policies) ==
    IF chain_id # POLYGON
    THEN Err("Validation", "hotpath currently supports Polygon only")
    ELSE IF signature_type = "Eoa"
    THEN Err("Validation", "hotpath config expects proxy signatures, got Eoa")
    ELSE IF funder = AddressZero
    THEN Err("Validation", "hotpath config requires non-zero funder")
    ELSE IF ~validate(policies).ok
    THEN validate(policies)
    ELSE Ok(HotPathConfig(host, chain_id, private_key, signature_type, funder,
                          nonce, policies))

\* Url::parse and Address::from_str on the strings the model feeds in.
Url_parse(host) ==
    IF host = "https://clob" THEN Ok("https://clob/") ELSE Err("Internal", "url parse")

Address_from_str(s) ==
    CASE s = "0x00" -> Ok(AddressZero)
      [] s = "0x01" -> Ok(1)
      [] OTHER -> Err("Validation", "invalid funder address")

HotPathConfig_from_raw(host, chain_id, raw, policies) ==
    IF ~Url_parse(host).ok THEN Url_parse(host)
    ELSE IF ~SignatureTypeInput_parse(raw.signature_type).ok
    THEN SignatureTypeInput_parse(raw.signature_type)
    ELSE IF ~Address_from_str(raw.funder).ok
    THEN Address_from_str(raw.funder)
    ELSE HotPathConfig_new(
            Url_parse(host).val, chain_id, raw.private_key,
            into_signature_type(SignatureTypeInput_parse(raw.signature_type).val),
            Address_from_str(raw.funder).val, None, policies)

-----------------------------------------------------------------------------
(* The external collaborators: the wall clock, the HTTP executor           *)
(* (crate::request) and the two header builders (auth::l1, auth::l2)       *)

Clock == 1..MaxClock

ApiKeys == {"k1", "k2"}

Credentials(k) == [key |-> k]

\* What one HTTP exchange for credentials can come back with.
CredentialResponses ==
    {Ok(Credentials(k)) : k \in ApiKeys}
        \cup {Err("Status", "non-2xx"), Err("Internal", "transport"),
              Err("Internal", "decode")}

OrderResponses ==
    {Ok("accepted"), Err("Status", "non-2xx"), Err("Internal", "transport"),
     Err("Internal", "decode")}

\* One request as the HTTP executor sees it.
HttpRequest(method, path, tier, ts, key, owner) ==
    [method |-> method, path |-> path, tier |-> tier, ts |-> ts, key |-> key,
     owner |-> owner]

\* The outcome of a call: its result and the requests it sent, in order.
Outcome(res, sent) == [res |-> res, sent |-> sent]

-----------------------------------------------------------------------------
(* hotpath/client.rs: timestamps and headers                               *)

\* resolve_timestamp that looks at the time policy before the override.
resolve_timestamp_policy_first(policy, override_timestamp, now) ==
    IF policy # "Fixed"
    THEN Err("Validation", <<"time", "policy FetchAndCache is not implemented">>)
    ELSE IF override_timestamp # None THEN Ok(Unwrap(override_timestamp))
    ELSE Ok(now)

\* `now` is what Utc::now().timestamp() reads at the call.
resolve_timestamp(policy, override_timestamp, now) ==
    IF override_timestamp # None THEN Ok(Unwrap(override_timestamp))
    ELSE IF policy = "Fixed" THEN Ok(now)
    ELSE Err("Validation", <<"time", "policy FetchAndCache is not implemented">>)

create_l1_headers(time_policy, now) ==
    LET timestamp == resolve_timestamp(time_policy, None, now) IN
    IF ~timestamp.ok THEN timestamp
    ELSE Ok([tier |-> "l1", ts |-> timestamp.val, key |-> "wallet"])

create_l2_headers(c, timestamp_override, now) ==
    LET timestamp == resolve_timestamp(c.policies.time, timestamp_override, now) IN
    IF ~timestamp.ok THEN timestamp
    ELSE Ok([tier |-> "l2", ts |-> timestamp.val, key |-> c.state.credentials.key])

-----------------------------------------------------------------------------
(* hotpath/client.rs: the credential bootstrap                             *)

create_api_key(time_policy, now, resp) ==
    LET headers == create_l1_headers(time_policy, now) IN
    IF ~headers.ok THEN Outcome(headers, <<>>)
    ELSE Outcome(resp, <<HttpRequest("POST", "auth/api-key", "l1",
                                     headers.val.ts, headers.val.key, "none")>>)

derive_api_key(time_policy, now, resp) ==
    LET headers == create_l1_headers(time_policy, now) IN
    IF ~headers.ok THEN Outcome(headers, <<>>)
    ELSE Outcome(resp, <<HttpRequest("GET", "auth/derive-api-key", "l1",
                                     headers.val.ts, headers.val.key, "none")>>)

\* create_or_derive_api_key falling back to derive on any error of create.
create_or_derive_any_error(time_policy, io) ==
    LET created == create_api_key(time_policy, io.now1, io.create) IN
    IF created.res.ok THEN created
    ELSE LET derived == derive_api_key(time_policy, io.now2, io.derive)
         IN  Outcome(derived.res, created.sent \o derived.sent)

\* create_or_derive_api_key that reports the create error when derive fails too.
create_or_derive_first_error(time_policy, io) ==
    LET created == create_api_key(time_policy, io.now1, io.create) IN
    IF created.res.ok THEN created
    ELSE IF created.res.kind = "Status"
    THEN LET derived == derive_api_key(time_policy, io.now2, io.derive)
         IN  Outcome(IF derived.res.ok THEN derived.res ELSE created.res,
                     created.sent \o derived.sent)
    ELSE created

\* `io` carries what the environment answers: the clock reading and the
\* server's response at each of the two calls.
create_or_derive_api_key(time_policy, io) ==
    LET created == create_api_key(time_policy, io.now1, io.create) IN
    IF created.res.ok THEN created
    ELSE IF created.res.kind = "Status"
    THEN LET derived == derive_api_key(time_policy, io.now2, io.derive)
         IN  Outcome(derived.res, created.sent \o derived.sent)
    ELSE created

-----------------------------------------------------------------------------
(* hotpath/client.rs: construction                                         *)

signer_from_config(cfg) ==
    IF cfg.private_key = "valid" THEN Ok("signer")
    ELSE Err("Validation", "invalid private key")

\* validate_funder_signature that only looks at the funder.
validate_funder_only(signature_type, funder) ==
    IF funder = AddressZero
    THEN Err("Validation", "Cannot have a zero funder address with a proxy signature type")
    ELSE Ok("unit")

validate_funder_signature(signature_type, funder) ==
    IF signature_type = "Eoa"
    THEN Err("Validation", "Cannot have a funder address with an Eoa signature type")
    ELSE IF funder = AddressZero
    THEN Err("Validation", "Cannot have a zero funder address with a proxy signature type")
    ELSE Ok("unit")

with_credentials_inner(cfg, signer, credentials) ==
    IF ~validate_funder_signature(cfg.signature_type, cfg.funder).ok
    THEN validate_funder_signature(cfg.signature_type, cfg.funder)
    ELSE Ok([host |-> cfg.host, chain_id |-> cfg.chain_id, nonce |-> cfg.nonce,
             signer |-> signer, signature_type |-> cfg.signature_type,
             funder |-> cfg.funder, policies |-> cfg.policies,
             credentials |-> credentials,
             state |-> [address |-> signer, credentials |-> credentials]])

bootstrap_with_client(cfg, io) ==
    LET signer == signer_from_config(cfg) IN
    IF ~signer.ok THEN Outcome(signer, <<>>)
    ELSE LET got == create_or_derive_api_key(cfg.policies.time, io) IN
         IF ~got.res.ok THEN got
         ELSE Outcome(with_credentials_inner(cfg, signer.val, got.res.val), got.sent)

with_credentials_and_client(cfg, credentials) ==
    LET signer == signer_from_config(cfg) IN
    IF ~signer.ok THEN signer
    ELSE with_credentials_inner(cfg, signer.val, credentials)

\* refresh_credentials that replaces the credentials field and leaves the
\* authenticated state with the old ones.
refresh_credentials_field_only(c, io) ==
    LET got == create_or_derive_api_key(c.policies.time, io) IN
    IF ~got.res.ok THEN [out |-> got, self |-> c]
    ELSE [out |-> got, self |-> [c EXCEPT !.credentials = got.res.val]]

\* refresh_credentials: the outcome, and the client as the call leaves it.
refresh_credentials(c, io) ==
    LET got == create_or_derive_api_key(c.policies.time, io) IN
    IF ~got.res.ok THEN [out |-> got, self |-> c]
    ELSE [out |-> got,
          self |-> [c EXCEPT !.state.credentials = got.res.val,
                             !.credentials = got.res.val]]

-----------------------------------------------------------------------------
(* hotpath/client.rs: amounts and salt                                     *)

\* to_fixed_u128 reading the mantissa without bringing it to 6 decimals.
to_fixed_u128_unscaled(d) ==
    IF DecIsSignNegative(d) THEN Err("Validation", "amount cannot be negative")
    ELSE Ok(DecMantissa(DecNormalize(d)))

to_fixed_u128(d) ==
    IF DecIsSignNegative(d) THEN Err("Validation", "amount cannot be negative")
    ELSE Ok(DecMantissa(DecTruncWithScale(DecNormalize(d), USDC_DECIMALS)))

\* A u64 is four 16-bit limbs, the most significant first.
RECURSIVE BitAnd(_, _)
BitAnd(a, b) ==
    IF a = 0 \/ b = 0 THEN 0
    ELSE (a % 2) * (b % 2) + 2 * BitAnd(a \div 2, b \div 2)

\* to_ieee_754_int that hands the seed on as it is.
to_ieee_754_int_unmasked(salt) == salt

\* (1 << 53) - 1
SaltMask == <<31, 65535, 65535, 65535>>

\* salt & ((1 << 53) - 1)
to_ieee_754_int(salt) == [i \in 1..4 |-> BitAnd(salt[i], SaltMask[i])]

\* The table of exchange contracts, keyed by chain and negative-risk flag.
contract_config(chain_id, neg_risk) ==
    IF chain_id = POLYGON
    THEN Some([exchange |-> IF neg_risk THEN "NegRiskExchange" ELSE "Exchange"])
    ELSE None

-----------------------------------------------------------------------------
(* hotpath/client.rs: sign_limit_order                                     *)

UNIX_EPOCH == 0

\* The (taker_amount, maker_amount) pair of the side, as Decimals.
order_amounts(side, price, size, decimals) ==
    IF side = "Buy"
    THEN Ok([taker |-> size,
             maker |-> DecTruncWithScale(DecMul(size, price), decimals + LOT_SIZE_SCALE)])
    ELSE IF side = "Sell"
    THEN Ok([taker |-> DecTruncWithScale(DecMul(size, price), decimals + LOT_SIZE_SCALE),
             maker |-> size])
    ELSE Err("Validation", "Invalid side")

\* expiration.timestamp().to_u64()
expiration_u64(expiration) ==
    IF expiration >= 0 THEN Ok(expiration)
    ELSE Err("Validation", "Unable to represent expiration as a u64")

\* Lines 195-199: only a GTD order may carry an expiration after the epoch.
check_expiration_gtc_only(order_type, expiration) ==
    IF order_type = "GTC" /\ expiration > UNIX_EPOCH
    THEN Err("Validation", "Only GTD orders may have a non-zero expiration")
    ELSE Ok("unit")

check_expiration(order_type, expiration) ==
    IF order_type # "GTD" /\ expiration > UNIX_EPOCH
    THEN Err("Validation", "Only GTD orders may have a non-zero expiration")
    ELSE Ok("unit")

\* Lines 200-204
check_post_only(order_type, post_only) ==
    IF post_only /\ order_type \notin {"GTC", "GTD"}
    THEN Err("Validation", "postOnly is only supported for GTC and GTD orders")
    ELSE Ok("unit")

\* Lines 210-219
check_signs(price, size) ==
    IF DecIsSignNegative(price)
    THEN Err("Validation", "Unable to build Order due to negative price")
    ELSE IF DecIsZero(size) \/ DecIsSignNegative(size)
    THEN Err("Validation", "Unable to build Order due to negative size")
    ELSE Ok("unit")

\* Lines 220-225: the lot size.
check_lot_size_usdc(size) ==
    IF DecScale(size) > USDC_DECIMALS
    THEN Err("Validation", "Size has too many decimal places. Maximum lot size is 2")
    ELSE Ok("unit")

check_lot_size(size) ==
    IF DecScale(size) > LOT_SIZE_SCALE
    THEN Err("Validation", "Size has too many decimal places. Maximum lot size is 2")
    ELSE Ok("unit")

\* Lines 230-237
check_price_scale(price, minimum_tick_size) ==
    IF DecScale(price) > DecScale(minimum_tick_size)
    THEN Err("Validation", "Price decimal places <= minimum tick size decimal places")
    ELSE Ok("unit")

\* Lines 238-242: the price within [tick, 1 - tick], ends included.
check_price_range_open(price, minimum_tick_size) ==
    IF ~DecGt(price, minimum_tick_size)
            \/ ~DecLt(price, DecSub(DecOne, minimum_tick_size))
    THEN Err("Validation", "Price is too small or too large for the minimum tick size")
    ELSE Ok("unit")

check_price_range(price, minimum_tick_size) ==
    IF DecLt(price, minimum_tick_size)
            \/ DecGt(price, DecSub(DecOne, minimum_tick_size))
    THEN Err("Validation", "Price is too small or too large for the minimum tick size")
    ELSE Ok("unit")

\* The checks of lines 195-242, in the order the code makes them.
validate_limit_order(order_type, expiration, post_only, price, size, minimum_tick_size) ==
    IF ~check_expiration(order_type, expiration).ok
    THEN check_expiration(order_type, expiration)
    ELSE IF ~check_post_only(order_type, post_only).ok
    THEN check_post_only(order_type, post_only)
    ELSE IF ~check_signs(price, size).ok
    THEN check_signs(price, size)
    ELSE IF ~check_lot_size(size).ok
    THEN check_lot_size(size)
    ELSE IF ~check_price_scale(price, minimum_tick_size).ok
    THEN check_price_scale(price, minimum_tick_size)
    ELSE check_price_range(price, minimum_tick_size)

\* Lines 244-299: the order record, its signature and the signed order.
build_signed_order(c, request, order_type, expiration, post_only, tick_size, neg_risk, fee_rate_bps, seed) ==
    LET decimals == DecScale(TickAsDecimal(tick_size))
        amounts == order_amounts(request.side, request.price, request.size, decimals)
        exp == expiration_u64(expiration)
    IN
    IF ~amounts.ok THEN amounts
    ELSE IF ~exp.ok THEN exp
    ELSE IF ~to_fixed_u128(amounts.val.maker).ok THEN to_fixed_u128(amounts.val.maker)
    ELSE IF ~to_fixed_u128(amounts.val.taker).ok THEN to_fixed_u128(amounts.val.taker)
    ELSE IF contract_config(c.chain_id, neg_risk) = None
    THEN Err("Validation", "missing contract config")
    ELSE LET order ==
                [salt |-> to_ieee_754_int(seed),
                 maker |-> c.funder,
                 signer |-> c.signer,
                 taker |-> UnwrapOr(request.taker, AddressZero),
                 tokenId |-> request.token_id,
                 makerAmount |-> to_fixed_u128(amounts.val.maker).val,
                 takerAmount |-> to_fixed_u128(amounts.val.taker).val,
                 expiration |-> exp.val,
                 nonce |-> UnwrapOr(request.nonce, 0),
                 feeRateBps |-> fee_rate_bps,
                 side |-> request.side,
                 signatureType |-> c.signature_type]
             domain == [chain_id |-> c.chain_id,
                        verifying_contract |->
                            Unwrap(contract_config(c.chain_id, neg_risk)).exchange]
         IN  Ok([order |-> order,
                 signature |-> [by |-> c.signer, domain |-> domain],
                 order_type |-> order_type,
                 owner |-> c.credentials.key,
                 post_only |-> Some(post_only)])

sign_limit_order(c, request, overrides, seed) ==
    LET tick_size == IF overrides.tick_size # None
                     THEN Ok(Unwrap(overrides.tick_size))
                     ELSE default_tick_size(c.policies)
        neg_risk == IF overrides.neg_risk # None
                    THEN Ok(Unwrap(overrides.neg_risk))
                    ELSE default_neg_risk(c.policies)
        fee_rate_bps == IF overrides.fee_rate_bps # None
                        THEN Ok(Unwrap(overrides.fee_rate_bps))
                        ELSE default_fee_rate_bps(c.policies)
        order_type == UnwrapOr(request.order_type, "GTC")
        expiration == UnwrapOr(request.expiration, UNIX_EPOCH)
        post_only == UnwrapOr(request.post_only, FALSE)
    IN
    IF ~tick_size.ok THEN tick_size
    ELSE IF ~neg_risk.ok THEN neg_risk
    ELSE IF ~fee_rate_bps.ok THEN fee_rate_bps
    ELSE LET checked == validate_limit_order(order_type, expiration, post_only,
                            request.price, request.size, TickAsDecimal(tick_size.val))
         IN  IF ~checked.ok THEN checked
             ELSE build_signed_order(c, request, order_type, expiration, post_only,
                                     tick_size.val, neg_risk.val, fee_rate_bps.val, seed)

-----------------------------------------------------------------------------
(* hotpath/client.rs: submission                                           *)

\* post_signed_order that sends the request before it has its headers.
post_signed_order_send_first(c, signed_order, timestamp_override, io) ==
    LET headers == create_l2_headers(c, timestamp_override, io.now) IN
    Outcome(IF ~headers.ok THEN headers ELSE io.resp,
            <<HttpRequest("POST", "order", "l2", io.now,
                          c.state.credentials.key, signed_order.owner)>>)

\* `io`: the clock reading and the exchange's answer to the POST.
post_signed_order(c, signed_order, timestamp_override, io) ==
    LET headers == create_l2_headers(c, timestamp_override, io.now) IN
    IF ~headers.ok THEN Outcome(headers, <<>>)
    ELSE Outcome(io.resp,
                 <<HttpRequest("POST", "order", "l2", headers.val.ts,
                               headers.val.key, signed_order.owner)>>)

post_limit_order_with_overrides(c, request, overrides, seed, io) ==
    LET signed == sign_limit_order(c, request, overrides, seed) IN
    IF ~signed.ok THEN Outcome(signed, <<>>)
    ELSE post_signed_order(c, signed.val, overrides.timestamp, io)

post_limit_order(c, request, seed, io) ==
    post_limit_order_with_overrides(c, request,
        [tick_size |-> None, neg_risk |-> None, fee_rate_bps |-> None,
         timestamp |-> None], seed, io)

-----------------------------------------------------------------------------
(* The inputs the model feeds in                                           *)

ChainIds == {POLYGON, 1}

PrivateKeys == {"valid", "invalid"}

Funders == {AddressZero, 1}

FeeRates == 0..MaxFeeRate

Policies(tick, neg, fee, time) ==
    [tick_size |-> tick, neg_risk |-> neg, fee_rate_bps |-> fee, time |-> time]

TickSlots == {Fixed(2), FetchAndCache}

NegRiskSlots == {Fixed(FALSE), Fixed(TRUE), FetchAndCache}

FeeSlots == {Fixed(0), FetchAndCache}

TimePolicies == {"Fixed", "FetchAndCache"}

PolicyBundles ==
    {Policies(t, n, f, c) :
        t \in TickSlots, n \in NegRiskSlots, f \in FeeSlots, c \in TimePolicies}

AllFixed == Policies(Fixed(2), Fixed(FALSE), Fixed(0), "Fixed")

\* The bundles a caller writes into a config by hand: at most one slot off.
LiteralBundles ==
    {AllFixed,
     [AllFixed EXCEPT !.tick_size = FetchAndCache],
     [AllFixed EXCEPT !.neg_risk = FetchAndCache],
     [AllFixed EXCEPT !.neg_risk = Fixed(TRUE)],
     [AllFixed EXCEPT !.fee_rate_bps = FetchAndCache],
     [AllFixed EXCEPT !.time = "FetchAndCache"]}

RawSignatureTypes ==
    {"0", "eoa", "EOA", "1", " Proxy ", "2", "gnosis", "Safe", "bogus"}

RawFunders == {"0x00", "0x01", "zzz"}

RawHosts == {"https://clob", "not a url"}

Seeds ==
    {<<0, 0, 0, 0>>, <<0, 0, 0, 1>>, <<0, 0, 26000, 1>>, <<31, 65535, 65535, 65535>>,
     <<32, 0, 0, 0>>, <<33, 0, 0, 5>>, <<65535, 65535, 65535, 65535>>}

Sides == {"Buy", "Sell", "Unknown"}

OrderTypes == {"GTC", "GTD", "FOK", "FAK"}

Expirations == {0 - 1, 0, 1}

\* Price mantissas at scale s: zero, the ends of [tick, 1 - tick] for every
\* tick of at most s decimals (also written with trailing zeros) and their
\* neighbours, one, and 0.55.
PriceMantissas(s) ==
    {0, 1, Pow10(s) - 1, Pow10(s), Pow10(s) + 1}
        \cup UNION {{Pow10(s - t), Pow10(s - t) + 1, Pow10(s) - Pow10(s - t),
                     Pow10(s) - Pow10(s - t) - 1} : t \in {t \in TickSizes : t <= s}}
        \cup (IF s >= 2 THEN {55 * Pow10(s - 2)} ELSE {})

Prices ==
    UNION {{Dec(FALSE, m, s) : m \in PriceMantissas(s)} : s \in 0..MaxPriceScale}
        \cup {Dec(TRUE, m, s) : m \in {0, 1}, s \in {0, 2}}

Sizes ==
    {Dec(FALSE, m, s) : m \in {0, 1, 1000, 2104}, s \in 0..MaxSizeScale}
        \cup {Dec(TRUE, m, s) : m \in {0, 1234}, s \in {0, MaxSizeScale}}

Request(side, price, size, order_type, expiration, post_only) ==
    [token_id |-> 1, side |-> side, price |-> price, size |-> size, nonce |-> None,
     expiration |-> expiration, taker |-> None, order_type |-> order_type,
     post_only |-> post_only]

Overrides(tick_size, neg_risk, fee_rate_bps, timestamp) ==
    [tick_size |-> tick_size, neg_risk |-> neg_risk, fee_rate_bps |-> fee_rate_bps,
     timestamp |-> timestamp]

NoOverrides == Overrides(None, None, None, None)

OrderInput(request, overrides, seed) ==
    [request |-> request, overrides |-> overrides, seed |-> seed]

\* Every side, price, size and tick size, the other fields unset.
NumericInputs ==
    {OrderInput(Request(sd, p, z, None, None, None),
                Overrides(t, None, None, None), <<0, 0, 0, 1>>) :
        sd \in Sides, p \in Prices, z \in Sizes, t \in OptionOf(TickSizes)}

\* Every side, order type, expiration and post-only flag, on a few amounts.
FlagInputs ==
    {OrderInput(Request(sd, p, z, ot, ex, po), ov, <<0, 0, 0, 1>>) :
        sd \in Sides,
        p \in {Dec(FALSE, 55, 2), Dec(TRUE, 55, 2)},
        z \in {Dec(FALSE, 1000, 2), Dec(FALSE, 1234, 3), Dec(FALSE, 0, 3),
               Dec(TRUE, 1234, 3), Dec(TRUE, 5, 0)},
        ot \in OptionOf(OrderTypes), ex \in OptionOf(Expirations),
        po \in OptionOf(BOOLEAN),
        ov \in {NoOverrides, Overrides(Some(2), Some(TRUE), Some(1), None)}}

\* One valid order under every seed and fee rate.
SeedInputs ==
    {OrderInput(Request("Buy", Dec(FALSE, 55, 2), Dec(FALSE, 1000, 2), None, None, None),
                Overrides(None, None, f, None), sd) :
        sd \in Seeds, f \in OptionOf(FeeRates)}

OrderInputs == NumericInputs \cup FlagInputs \cup SeedInputs

\* The orders of the life-cycle runs.
LifecycleInputs ==
    {OrderInput(Request("Buy", Dec(FALSE, 55, 2), Dec(FALSE, 1000, 2), None, None, None),
                NoOverrides, <<0, 0, 26000, 1>>),
     OrderInput(Request("Sell", Dec(FALSE, 5, 1), Dec(FALSE, 2104, 2), Some("GTD"),
                        Some(1), Some(TRUE)),
                Overrides(Some(1), Some(FALSE), Some(1), Some(MaxClock + 7)),
                <<33, 0, 0, 5>>),
     OrderInput(Request("Buy", Dec(FALSE, 55, 2), Dec(FALSE, 1234, 3), None, None, None),
                NoOverrides, <<0, 0, 0, 1>>),
     OrderInput(Request("Buy", Dec(FALSE, 55, 2), Dec(FALSE, 1000, 2), Some("GTC"),
                        Some(1), None),
                Overrides(None, None, None, Some(MaxClock + 7)), <<0, 0, 0, 1>>)}

\* What the environment answers during a create-or-derive run: the clock at
\* each call (it does not run backwards) and the server's two responses.  A
\* derive answer is only distinguished when the create answer is a Status
\* error, the one case that asks for it; otherwise it stands at one value.
BootstrapIO ==
    {io \in [now1 : Clock, now2 : Clock, create : CredentialResponses,
             derive : CredentialResponses] :
        /\ io.now1 <= io.now2
        /\ (io.create.ok \/ io.create.kind # "Status")
              => (io.derive = Ok(Credentials("k2")) /\ io.now2 = io.now1)}

PostIO == [now : Clock, resp : OrderResponses]

-----------------------------------------------------------------------------
(* The state machine                                                       *)

NoConfig == [via |-> "none", res |-> Err("None", "no config")]

Start == [op |-> "start"]

Init ==
    /\ config = NoConfig
    /\ client = None
    /\ net = <<>>
    /\ last = Start
    /\ held = None
    /\ input = None

\* The caller builds its configuration once, before it constructs a client.
CanConfigure == config = NoConfig /\ client = None /\ last = Start

\* HotPathConfig::new
ConfigNew ==
    /\ CanConfigure
    /\ \E chain_id \in ChainIds, private_key \in PrivateKeys,
          signature_type \in SignatureTypes, funder \in Funders,
          nonce \in OptionOf({0}), policies \in PolicyBundles :
          LET res == HotPathConfig_new("https://clob/", chain_id, private_key,
                                       signature_type, funder, nonce, policies)
          IN  /\ config' = [via |-> "new", res |-> res]
              /\ last' = [op |-> "config", chain_id |-> chain_id,
                          signature_type |-> signature_type, funder |-> funder,
                          nonce |-> nonce, policies |-> policies, res |-> res]
    /\ net' = <<>>
    /\ UNCHANGED <<client, held, input>>

\* HotPathConfig::from_raw
ConfigFromRaw ==
    /\ CanConfigure
    /\ \E host \in RawHosts, chain_id \in ChainIds, signature_type \in RawSignatureTypes,
          funder \in RawFunders, policies \in PolicyBundles :
          LET raw == [private_key |-> "valid", signature_type |-> signature_type,
                      funder |-> funder]
              res == HotPathConfig_from_raw(host, chain_id, raw, policies)
          IN  /\ config' = [via |-> "from_raw", res |-> res]
              /\ last' = [op |-> "config_raw", host |-> host, chain_id |-> chain_id,
                          signature_type |-> signature_type, funder |-> funder,
                          policies |-> policies, res |-> res]
    /\ net' = <<>>
    /\ UNCHANGED <<client, held, input>>

\* A HotPathConfig written as a struct literal: every field is public.
ConfigLiteral ==
    /\ CanConfigure
    /\ \E chain_id \in ChainIds, private_key \in PrivateKeys,
          signature_type \in SignatureTypes, funder \in Funders,
          policies \in LiteralBundles :
          LET cfg == HotPathConfig("https://clob/", chain_id, private_key,
                                   signature_type, funder, None, policies)
          IN  /\ config' = [via |-> "literal", res |-> Ok(cfg)]
              /\ last' = [op |-> "config_literal", res |-> Ok(cfg)]
    /\ net' = <<>>
    /\ UNCHANGED <<client, held, input>>

\* HotPathClient::bootstrap / bootstrap_with_client: the config is moved in.
Bootstrap ==
    /\ config.res.ok
    /\ \E io \in BootstrapIO :
          LET out == bootstrap_with_client(config.res.val, io) IN
          /\ client' = IF out.res.ok THEN Some(out.res.val) ELSE client
          /\ net' = out.sent
          /\ last' = [op |-> "bootstrap", via |-> config.via,
                      cfg |-> config.res.val,
                      create |-> IF Len(out.sent) >= 1 THEN Some(io.create) ELSE None,
                      derive |-> IF Len(out.sent) >= 2 THEN Some(io.derive) ELSE None,
                      now |-> <<io.now1, io.now2>>, res |-> out.res]
    /\ config' = NoConfig
    /\ UNCHANGED <<held, input>>

\* HotPathClient::with_credentials / with_credentials_and_client
WithCredentials ==
    /\ config.res.ok
    /\ \E k \in ApiKeys :
          LET res == with_credentials_and_client(config.res.val, Credentials(k)) IN
          /\ client' = IF res.ok THEN Some(res.val) ELSE client
          /\ last' = [op |-> "with_credentials", via |-> config.via,
                      cfg |-> config.res.val, res |-> res]
    /\ net' = <<>>
    /\ config' = NoConfig
    /\ UNCHANGED <<held, input>>

\* HotPathClient::refresh_credentials
RefreshCredentials ==
    /\ client # None
    /\ \E io \in BootstrapIO :
          LET r == refresh_credentials(Unwrap(client), io) IN
          /\ client' = Some(r.self)
          /\ net' = r.out.sent
          /\ last' = [op |-> "refresh_credentials", before |-> Unwrap(client),
                      create |-> IF Len(r.out.sent) >= 1 THEN Some(io.create) ELSE None,
                      derive |-> IF Len(r.out.sent) >= 2 THEN Some(io.derive) ELSE None,
                      now |-> <<io.now1, io.now2>>, res |-> r.out.res]
    /\ UNCHANGED <<config, held, input>>

\* HotPathClient::sign_limit_order on input i; the caller keeps the result.
SignLimitOrder(i) ==
    /\ client # None
    /\ LET res == sign_limit_order(Unwrap(client), i.request, i.overrides, i.seed) IN
          /\ last' = [op |-> "sign_limit_order", request |-> i.request,
                      overrides |-> i.overrides, seed |-> i.seed, res |-> res]
          /\ held' = IF res.ok THEN Some(res.val) ELSE held
    /\ net' = <<>>
    /\ UNCHANGED <<config, client>>

SignOrder ==
    /\ input = None
    /\ \E i \in LifecycleInputs : SignLimitOrder(i)
    /\ UNCHANGED input

\* HotPathClient::post_signed_order on the order the caller holds
PostSignedOrder ==
    /\ client # None
    /\ held # None
    /\ \E io \in PostIO, timestamp_override \in OptionOf({MaxClock + 7}) :
          LET out == post_signed_order(Unwrap(client), Unwrap(held),
                                       timestamp_override, io)
          IN  /\ net' = out.sent
              /\ last' = [op |-> "post_signed_order",
                          timestamp_override |-> timestamp_override,
                          now |-> io.now, res |-> out.res]
    /\ UNCHANGED <<config, client, held, input>>

\* HotPathClient::post_limit_order / post_limit_order_with_overrides
PostLimitOrder ==
    /\ client # None
    /\ input = None
    /\ \E i \in LifecycleInputs, io \in PostIO :
          LET out == post_limit_order_with_overrides(Unwrap(client), i.request,
                                                     i.overrides, i.seed, io)
          IN  /\ net' = out.sent
              /\ last' = [op |-> "post_limit_order", request |-> i.request,
                          overrides |-> i.overrides, seed |-> i.seed,
                          signed |-> sign_limit_order(Unwrap(client), i.request,
                                                      i.overrides, i.seed),
                          now |-> io.now, res |-> out.res]
    /\ UNCHANGED <<config, client, held, input>>

Next ==
    \/ ConfigNew
    \/ ConfigFromRaw
    \/ ConfigLiteral
    \/ Bootstrap
    \/ WithCredentials
    \/ RefreshCredentials
    \/ SignOrder
    \/ PostSignedOrder
    \/ PostLimitOrder

Spec == Init /\ [][Next]_vars

-----------------------------------------------------------------------------
(* The order pipeline alone: a constructed client and one request          *)

OrderClientConfigs ==
    {HotPathConfig("https://clob/", chain_id, "valid", "Proxy", 1, None, policies) :
        chain_id \in ChainIds,
        policies \in {AllFixed, [AllFixed EXCEPT !.tick_size = FetchAndCache],
                      [AllFixed EXCEPT !.fee_rate_bps = FetchAndCache]}}

OrderClients ==
    {with_credentials_and_client(cfg, Credentials("k1")).val : cfg \in OrderClientConfigs}

InitOrder ==
    /\ config = NoConfig
    /\ client \in {Some(c) : c \in OrderClients}
    /\ net = <<>>
    /\ last = Start
    /\ held = None
    /\ input \in {Some(i) : i \in OrderInputs}

SignInput ==
    /\ input # None
    /\ SignLimitOrder(Unwrap(input))
    /\ input' = None

NextOrder == SignInput

SpecOrder == InitOrder /\ [][NextOrder]_vars

-----------------------------------------------------------------------------
(* Shared vocabulary of the properties                                     *)

Signed == last.op = "sign_limit_order"

\* The tick size in force for the request signed last, when one resolves.
TickResolves ==
    last.overrides.tick_size # None \/ Unwrap(client).policies.tick_size.tag = "Fixed"

TickDecimals ==
    IF last.overrides.tick_size # None THEN Unwrap(last.overrides.tick_size)
    ELSE Unwrap(Unwrap(client).policies.tick_size.v)

PoliciesResolve ==
    /\ TickResolves
    /\ last.overrides.neg_risk # None \/ Unwrap(client).policies.neg_risk.tag = "Fixed"
    /\ last.overrides.fee_rate_bps # None
          \/ Unwrap(client).policies.fee_rate_bps.tag = "Fixed"

EffectiveOrderType == IF last.request.order_type = None THEN "GTC"
                      ELSE Unwrap(last.request.order_type)

EffectiveExpiration == IF last.request.expiration = None THEN 0
                       ELSE Unwrap(last.request.expiration)

EffectivePostOnly == last.request.post_only = Some(TRUE)

\* The order type, expiration and post-only flag obey the documented rules.
FlagsValid ==
    /\ EffectiveOrderType = "GTD" \/ EffectiveExpiration = 0
    /\ EffectiveExpiration >= 0
    /\ EffectivePostOnly => EffectiveOrderType \in {"GTC", "GTD"}

SizeValid ==
    /\ ~last.request.size.neg
    /\ last.request.size.m > 0
    /\ last.request.size.s <= 2

\* Everything but the price is valid: the policies resolve, the side is a real
\* side, the size is a positive lot, the flags agree, the chain has a contract.
OtherInputsValid ==
    /\ PoliciesResolve
    /\ last.request.side \in {"Buy", "Sell"}
    /\ SizeValid
    /\ FlagsValid
    /\ Unwrap(client).chain_id = POLYGON

\* The price against [tick, 1 - tick], as exact arithmetic on the value:
\* price = m / 10^s, tick = 1 / 10^t.
PriceBelowRange ==
    LET p == last.request.price t == TickDecimals
        k == IF p.s > t THEN p.s ELSE t
    IN  p.neg \/ p.m * Pow10(k - p.s) < Pow10(k - t)

PriceAboveRange ==
    LET p == last.request.price t == TickDecimals
        k == IF p.s > t THEN p.s ELSE t
    IN  ~p.neg /\ p.m * Pow10(k - p.s) > Pow10(k) - Pow10(k - t)

PriceOnBoundary ==
    LET p == last.request.price t == TickDecimals
        k == IF p.s > t THEN p.s ELSE t
    IN  /\ ~p.neg
        /\ \/ p.m * Pow10(k - p.s) = Pow10(k - t)
           \/ p.m * Pow10(k - p.s) = Pow10(k) - Pow10(k - t)

PriceValid ==
    /\ ~PriceBelowRange
    /\ ~PriceAboveRange
    /\ last.request.price.s <= TickDecimals

\* price x size cut to tickDecimals + 2 fractional digits, in 6-decimal fixed
\* point; and the size in 6-decimal fixed point.
ExpectedNotional ==
    LET p == last.request.price z == last.request.size t == TickDecimals IN
    IF p.s + z.s > t + 2
    THEN ((p.m * z.m) \div Pow10(p.s + z.s - (t + 2))) * Pow10(6 - (t + 2))
    ELSE p.m * z.m * Pow10(6 - (p.s + z.s))

ExpectedSize == last.request.size.m * Pow10(6 - last.request.size.s)

-----------------------------------------------------------------------------
(* C7: for every price, size and tick size within the documented bounds    *)
(* (the other inputs being valid) sign_limit_order succeeds; a Buy has     *)
(* takerAmount = size x 10^6 and makerAmount = price x size cut to         *)
(* tickDecimals + 2 digits, x 10^6; a Sell swaps the two; both amounts are *)
(* non-negative.                                                           *)
C7_Amounts ==
    (Signed /\ OtherInputsValid /\ PriceValid) =>
        /\ last.res.ok
        /\ last.res.val.order.makerAmount >= 0
        /\ last.res.val.order.takerAmount >= 0
        /\ last.request.side = "Buy" =>
              /\ last.res.val.order.takerAmount = ExpectedSize
              /\ last.res.val.order.makerAmount = ExpectedNotional
        /\ last.request.side = "Sell" =>
              /\ last.res.val.order.takerAmount = ExpectedNotional
              /\ last.res.val.order.makerAmount = ExpectedSize

\* The example of the specification: 0.55 x 10.00 at tick 0.01, Buy.
C7_Witness ==
    /\ Signed
    /\ last.request.side = "Buy"
    /\ last.request.price = Dec(FALSE, 55, 2)
    /\ last.request.size = Dec(FALSE, 1000, 2)
    /\ TickResolves /\ TickDecimals = 2
    /\ last.res.ok
    /\ last.res.val.order.takerAmount = 10000000
    /\ last.res.val.order.makerAmount = 5500000

-----------------------------------------------------------------------------
(* C8 (as amended): sign_limit_order fails for every price outside         *)
(* [tickSize, 1 - tickSize]; with the other inputs valid it succeeds for a *)
(* price equal to tickSize or to 1 - tickSize that is written with no more *)
(* fractional digits than the tick size has, and fails for the same value  *)
(* written with more digits (0.10 at tick 0.1).                            *)
C8_PriceBounds ==
    Signed =>
        /\ (TickResolves /\ (PriceBelowRange \/ PriceAboveRange)) => ~last.res.ok
        /\ (OtherInputsValid /\ PriceOnBoundary
                /\ last.request.price.s <= TickDecimals) => last.res.ok
        /\ (TickResolves /\ last.request.price.s > TickDecimals) => ~last.res.ok

\* A price equal to 1 - tick, at the tick's own scale, is signed.
C8_Witness ==
    /\ Signed /\ OtherInputsValid
    /\ TickDecimals = 3
    /\ last.request.price = Dec(FALSE, 999, 3)
    /\ last.res.ok

\* C8 as stated: a boundary price succeeds whatever its decimal representation.
C8_AnyRepresentation ==
    (Signed /\ OtherInputsValid /\ PriceOnBoundary) => last.res.ok

-----------------------------------------------------------------------------
(* C9 (as amended): a request whose size has more than 2 fractional digits *)
(* always fails; the error names the lot size when no earlier check fires, *)
(* that is when the policies resolve, the expiration and post-only rules   *)
(* hold, the price is not negative and the size is positive.  A zero or    *)
(* negative size is reported as a negative size instead.                   *)
LotSizeError ==
    Err("Validation", "Size has too many decimal places. Maximum lot size is 2")

EarlierChecksPass ==
    /\ PoliciesResolve
    /\ EffectiveOrderType = "GTD" \/ EffectiveExpiration <= 0
    /\ EffectivePostOnly => EffectiveOrderType \in {"GTC", "GTD"}
    /\ ~last.request.price.neg
    /\ ~last.request.size.neg
    /\ last.request.size.m > 0

C9_LotSize ==
    (Signed /\ last.request.size.s > 2) =>
        /\ ~last.res.ok
        /\ EarlierChecksPass => last.res = LotSizeError
        /\ (PoliciesResolve /\ (last.request.size.neg \/ last.request.size.m = 0))
              => last.res # LotSizeError

\* 1.234 with everything else in order: the lot-size error.
C9_Witness ==
    /\ Signed
    /\ last.request.size = Dec(FALSE, 1234, 3)
    /\ EarlierChecksPass
    /\ last.res = LotSizeError

\* C9 as stated: the lot-size error whatever the other request fields.
C9_Regardless ==
    (Signed /\ PoliciesResolve /\ last.request.size.s > 2) => last.res = LotSizeError

-----------------------------------------------------------------------------
(* C10 (as amended): with the policies resolved, a request whose defaulted *)
(* order type is not GTD and whose expiration is later than the unix epoch *)
(* is rejected with the error that mentions GTD; an unset order type is    *)
(* GTC.  An expiration earlier than the epoch is rejected too, but never   *)
(* with the GTD error.                                                     *)
GtdError == Err("Validation", "Only GTD orders may have a non-zero expiration")

C10_Expiration ==
    Signed =>
        /\ (PoliciesResolve /\ EffectiveOrderType # "GTD" /\ EffectiveExpiration > 0)
              => last.res = GtdError
        /\ (EffectiveOrderType # "GTD" /\ EffectiveExpiration < 0)
              => (~last.res.ok /\ last.res # GtdError)
        /\ (last.res.ok /\ last.request.order_type = None)
              => last.res.val.order_type = "GTC"
        /\ last.res.ok => (EffectiveOrderType = "GTD" \/ EffectiveExpiration = 0)

\* An order with no order type and an expiration after the epoch.
C10_Witness ==
    /\ Signed
    /\ last.request.order_type = None
    /\ last.request.expiration = Some(1)
    /\ last.res = GtdError

\* C10 as stated, on requests that are otherwise in order: any expiration
\* other than the epoch draws the GTD error.
C10_AnyNonZero ==
    (Signed /\ PoliciesResolve /\ SizeValid /\ PriceValid
        /\ last.request.side \in {"Buy", "Sell"}
        /\ EffectiveOrderType # "GTD" /\ EffectiveExpiration # 0)
        => last.res = GtdError

-----------------------------------------------------------------------------
(* The credential bootstrap, as bootstrap and refresh_credentials run it   *)

Bootstrapping == last.op \in {"bootstrap", "refresh_credentials"}

CreateRequest == [method |-> "POST", path |-> "auth/api-key"]

DeriveRequest == [method |-> "GET", path |-> "auth/derive-api-key"]

\* The method and path of each request the last operation sent.
Sent == [i \in 1..Len(net) |-> [method |-> net[i].method, path |-> net[i].path]]

\* What create_or_derive_api_key handed back, read off the operation's
\* result: refresh returns it as is; bootstrap wraps the credentials in the
\* client, or fails in validate_funder_signature after it.
CredentialsReturned(creds) ==
    IF last.op = "refresh_credentials"
    THEN last.res = Ok(creds) /\ Unwrap(client).credentials = creds
    ELSE \/ last.res.ok /\ last.res.val.credentials = creds
         \/ /\ ~last.res.ok
            /\ validate_funder_signature(last.cfg.signature_type, last.cfg.funder)
                    = last.res

-----------------------------------------------------------------------------
(* C1: when create fails with a Status error, exactly one derive call      *)
(* follows it and the result is the derive call's; valid derive            *)
(* credentials are returned and the create error is not.  When create      *)
(* succeeds its credentials are returned and derive is never called.       *)
C1_CreateThenDerive ==
    (Bootstrapping /\ last.create # None) =>
        LET created == Unwrap(last.create) IN
        /\ (~created.ok /\ created.kind = "Status") =>
              /\ Sent = <<CreateRequest, DeriveRequest>>
              /\ last.derive # None
              /\ Unwrap(last.derive).ok => CredentialsReturned(Unwrap(last.derive).val)
              /\ ~Unwrap(last.derive).ok => last.res = Unwrap(last.derive)
        /\ created.ok =>
              /\ Sent = <<CreateRequest>>
              /\ CredentialsReturned(created.val)

\* create answers with a Status error, derive with credentials, and the
\* client is built on the derived credentials.
C1_Witness ==
    /\ last.op = "bootstrap"
    /\ last.create = Some(Err("Status", "non-2xx"))
    /\ last.derive = Some(Ok(Credentials("k1")))
    /\ last.res.ok
    /\ client # None /\ Unwrap(client).credentials = Credentials("k1")
    /\ Len(net) = 2

-----------------------------------------------------------------------------
(* C2: when the create step fails with an error that is not of Status kind *)
(* (transport, decode, or a local failure building the tier-1 headers such *)
(* as an unsupported time policy) that error is returned and derive is     *)
(* never called.                                                           *)
TimePolicyInForce ==
    IF last.op = "bootstrap" THEN last.cfg.policies.time
    ELSE last.before.policies.time

\* The create step was reached: refresh always reaches it, bootstrap once the
\* private key has given a signer.
CreateReached ==
    last.op = "refresh_credentials" \/ last.cfg.private_key = "valid"

C2_NoFallback ==
    Bootstrapping =>
        /\ (last.create # None /\ ~Unwrap(last.create).ok
                /\ Unwrap(last.create).kind # "Status") =>
              /\ last.res = Unwrap(last.create)
              /\ Sent = <<CreateRequest>>
              /\ last.derive = None
        /\ (CreateReached /\ TimePolicyInForce = "FetchAndCache") =>
              /\ last.res = Err("Validation",
                                <<"time", "policy FetchAndCache is not implemented">>)
              /\ net = <<>>

\* A transport failure of the create call comes back from bootstrap.
C2_Witness ==
    /\ last.op = "bootstrap"
    /\ last.create = Some(Err("Internal", "transport"))
    /\ last.res = Err("Internal", "transport")
    /\ Len(net) = 1

-----------------------------------------------------------------------------
(* C3: post_limit_order sends the POST to /order only after the policies   *)
(* have resolved, the order has been validated and signed and the tier-2   *)
(* headers built; when one of those steps fails the error comes back and   *)
(* nothing has been sent; no call sends more than one POST.                *)
Posting == last.op = "post_limit_order"

\* The timestamp of the tier-2 headers resolves: an override is given or the
\* time policy is Fixed.
TimestampResolves ==
    last.overrides.timestamp # None \/ Unwrap(client).policies.time = "Fixed"

C3_PostAfterLocalSteps ==
    Posting =>
        /\ Len(net) <= 1
        /\ Len(net) = 1 <=> (last.signed.ok /\ TimestampResolves)
        /\ Len(net) = 1 =>
              /\ net[1].method = "POST" /\ net[1].path = "order"
              /\ net[1].owner = last.signed.val.owner
        /\ ~last.signed.ok => last.res = last.signed
        /\ (last.signed.ok /\ ~TimestampResolves) =>
              (~last.res.ok /\ last.res.kind = "Validation")
        /\ ~PoliciesResolve => (~last.signed.ok /\ net = <<>>)

\* The order is signed and the single POST goes out.
C3_Witness ==
    /\ Posting
    /\ last.signed.ok
    /\ Len(net) = 1
    /\ last.res = Ok("accepted")

-----------------------------------------------------------------------------
(* C4: refresh_credentials reruns create-or-derive; on success the held    *)
(* credentials are replaced in one step, in the credentials field and in   *)
(* the authenticated state alike, and on failure the client is left as it  *)
(* was, every field of it.                                                 *)
C4_RefreshAtomic ==
    /\ client # None =>
          Unwrap(client).credentials = Unwrap(client).state.credentials
    /\ last.op = "refresh_credentials" =>
          /\ last.res.ok =>
                Unwrap(client) =
                    [last.before EXCEPT !.credentials = last.res.val,
                                        !.state.credentials = last.res.val]
          /\ ~last.res.ok => Unwrap(client) = last.before

\* A refresh that brings credentials other than the ones held.
C4_Witness ==
    /\ last.op = "refresh_credentials"
    /\ last.res.ok
    /\ last.before.credentials # last.res.val
    /\ Unwrap(client).state.credentials = last.res.val

-----------------------------------------------------------------------------
(* C5: a policy bundle with a FetchAndCache slot is refused by             *)
(* HotPathConfig::new and from_raw, before any request is sent; so no      *)
(* client construction that starts from new or from_raw sends a request    *)
(* under such a bundle.                                                    *)
HasFetchSlot(p) ==
    \/ p.tick_size.tag = "FetchAndCache"
    \/ p.neg_risk.tag = "FetchAndCache"
    \/ p.fee_rate_bps.tag = "FetchAndCache"
    \/ p.time = "FetchAndCache"

C5_FetchRefusedEarly ==
    /\ (last.op \in {"config", "config_raw"} /\ HasFetchSlot(last.policies)) =>
          (~last.res.ok /\ ~config.res.ok /\ net = <<>>)
    /\ (config.via \in {"new", "from_raw"} /\ config.res.ok) =>
          ~HasFetchSlot(config.res.val.policies)
    /\ (last.op \in {"bootstrap", "with_credentials"}
            /\ last.via \in {"new", "from_raw"}) =>
          ~HasFetchSlot(last.cfg.policies)

\* Every field in order but the fee-rate slot: the policy error.
C5_Witness ==
    /\ last.op = "config"
    /\ last.chain_id = POLYGON /\ last.signature_type = "Proxy" /\ last.funder # 0
    /\ last.policies = [AllFixed EXCEPT !.fee_rate_bps = FetchAndCache]
    /\ last.res = Err("Validation",
                      <<"fee_rate_bps", "policy FetchAndCache is not implemented">>)

-----------------------------------------------------------------------------
(* C6: the Eoa mode is refused by HotPathConfig::new and from_raw whatever *)
(* the other fields are, and so is a zero funder with Proxy or GnosisSafe; *)
(* every constructed client has mode Proxy or GnosisSafe and a non-zero    *)
(* funder.                                                                 *)
RawModeIsEoa == last.signature_type \in {"0", "eoa", "EOA"}

C6_EoaRefused ==
    /\ (last.op = "config" /\ last.signature_type = "Eoa") => ~last.res.ok
    /\ (last.op = "config_raw" /\ RawModeIsEoa) => ~last.res.ok
    /\ (last.op = "config" /\ last.funder = 0) => ~last.res.ok
    /\ (last.op = "config_raw" /\ last.funder = "0x00") => ~last.res.ok
    /\ (config.via \in {"new", "from_raw"} /\ config.res.ok) =>
          /\ config.res.val.signature_type \in {"Proxy", "GnosisSafe"}
          /\ config.res.val.funder # 0
    /\ client # None =>
          /\ Unwrap(client).signature_type \in {"Proxy", "GnosisSafe"}
          /\ Unwrap(client).funder # 0

\* Eoa with a non-zero funder on Polygon and fixed policies: refused as Eoa.
C6_Witness ==
    /\ last.op = "config"
    /\ last.signature_type = "Eoa"
    /\ last.chain_id = POLYGON /\ last.funder # 0 /\ last.policies = AllFixed
    /\ last.res = Err("Validation", "hotpath config expects proxy signatures, got Eoa")

-----------------------------------------------------------------------------
(* C11: the timestamp of the authentication headers.  A per-call override  *)
(* is used unchanged whatever the time policy; without one a Fixed policy  *)
(* gives the clock reading of the call and a FetchAndCache policy fails    *)
(* with the "not implemented" validation error and nothing is sent.  The   *)
(* override reaches only the tier-2 headers of an order submission: the    *)
(* tier-1 headers of bootstrap and refresh always carry the clock reading, *)
(* and under FetchAndCache they always fail.                               *)
TimeNotImplemented ==
    Err("Validation", <<"time", "policy FetchAndCache is not implemented">>)

\* The submission just made, given the override it was called with.
TierTwoTimestamp(override) ==
    IF override # None
    THEN Len(net) = 1 /\ net[1].tier = "l2" /\ net[1].ts = Unwrap(override)
    ELSE IF Unwrap(client).policies.time = "Fixed"
    THEN Len(net) = 1 /\ net[1].tier = "l2" /\ net[1].ts = last.now
    ELSE net = <<>> /\ last.res = TimeNotImplemented

C11_TimestampResolution ==
    /\ last.op = "post_signed_order" => TierTwoTimestamp(last.timestamp_override)
    /\ (Posting /\ last.signed.ok) => TierTwoTimestamp(last.overrides.timestamp)
    /\ Bootstrapping =>
          /\ \A i \in 1..Len(net) : net[i].tier = "l1" /\ net[i].ts = last.now[i]
          /\ (CreateReached /\ TimePolicyInForce = "Fixed") => Len(net) >= 1
          /\ (CreateReached /\ TimePolicyInForce # "Fixed") =>
                (net = <<>> /\ last.res = TimeNotImplemented)

\* An order posted with an override by a client whose time policy is
\* FetchAndCache: the request goes out and carries the override.
C11_Witness ==
    /\ last.op = "post_signed_order"
    /\ Unwrap(client).policies.time = "FetchAndCache"
    /\ last.timestamp_override = Some(MaxClock + 7)
    /\ Len(net) = 1
    /\ net[1].ts = MaxClock + 7
    /\ net[1].ts # last.now

-----------------------------------------------------------------------------
(* C12: every order that sign_limit_order builds, however often it is      *)
(* called and whatever seed the clock and the random fraction give, has a  *)
(* salt of at most 2^53 - 1; the orders a caller holds and the ones        *)
(* post_limit_order signs on the way are such orders.                      *)

\* a <= b for two u64 values given as limbs.
U64Leq(a, b) ==
    \E k \in 1..5 :
        /\ \A i \in 1..(k - 1) : a[i] = b[i]
        /\ (k = 5 \/ a[k] < b[k])

C12_SaltBound ==
    /\ held # None => U64Leq(Unwrap(held).order.salt, SaltMask)
    /\ (last.op = "sign_limit_order" /\ last.res.ok) =>
          U64Leq(last.res.val.order.salt, SaltMask)
    /\ (Posting /\ last.signed.ok) => U64Leq(last.signed.val.order.salt, SaltMask)

\* An order signed from a seed above 2^53 - 1 and kept by the caller: its
\* salt is the seed's low 53 bits.
C12_Witness ==
    /\ last.op = "sign_limit_order"
    /\ last.res.ok
    /\ ~U64Leq(last.seed, SaltMask)
    /\ last.res.val.order.salt = <<last.seed[1] % 32, last.seed[2], last.seed[3], last.seed[4]>>
    /\ held = Some(last.res.val)
    /\ net = <<>>

-----------------------------------------------------------------------------
(* C13: in every POST /order request a client sends, after any sequence of *)
(* sign_limit_order, refresh_credentials and post_signed_order on it, the  *)
(* owner key in the signed-order body is the API key of the credentials    *)
(* the tier-2 headers of that request were computed from.                  *)
C13_OwnerIsHeaderKey ==
    \A i \in 1..Len(net) :
        (net[i].method = "POST" /\ net[i].path = "order") =>
            (net[i].tier = "l2" /\ net[i].owner = net[i].key)

\* An order signed under one set of credentials and posted after a refresh
\* brought another: the body names the old key, the headers the new one.
C13_Witness ==
    /\ last.op = "post_signed_order"
    /\ Len(net) = 1
    /\ net[1].owner = Unwrap(held).owner
    /\ net[1].key = Unwrap(client).credentials.key
    /\ net[1].owner # net[1].key

=============================================================================
